---------------------------- MODULE Spec2Model ----------------------------
(***************************************************************************)
(* Model of valgrindGUI_windows.py (class MemoryLeakGUI): the tool prober, *)
(* the compile and analyze handlers, the WSL path translation and the      *)
(* Valgrind output parser.                                                 *)
(*                                                                         *)
(* Conventions.                                                            *)
(*  - A path is a sequence of one-character strings.                       *)
(*  - A checker text is a sequence of fragments (words of the Valgrind     *)
(*    report); the text itself is their concatenation.  The fragments are  *)
(*    chosen so that every literal the parser looks for is one fragment.   *)
(*  - A log item is a record [t |-> template, a |-> payload]: one           *)
(*    text_area.insert call, the f-string's fixed text in t and the value  *)
(*    substituted into it in a (a sequence of strings).                    *)
(*  - The marks of the log are written in ASCII: "[OK]" for the check      *)
(*    mark, "[X]" for the cross and "[!]" for the warning sign.            *)
(*  - The object is threaded through the operators as a record s; the      *)
(*    field raise holds the exception in flight ("none" when there is      *)
(*    none), calls the subprocess.run invocations of the running handler   *)
(*    and notices its messagebox dialogs.                                  *)
(***************************************************************************)
EXTENDS Integers, Sequences, FiniteSets, TLC

VARIABLES
    process_entry,          \* self.process_entry: the stored path
    status_var,             \* self.status_var
    wsl_available,          \* self.wsl_available
    wsl_gcc_available,      \* self.wsl_gcc_available
    wsl_valgrind_available, \* self.wsl_valgrind_available
    text_area,              \* self.text_area: the log
    fs,                     \* the files os.path.exists finds
    platform,               \* platform.system()
    last,                   \* the handler that ran last: what it was given and did
    arg,                    \* input of the pure function under check
    ret                     \* its results, one per application

vars == <<process_entry, status_var, wsl_available, wsl_gcc_available,
          wsl_valgrind_available, text_area, fs, platform, last, arg, ret>>

gui == <<process_entry, status_var, wsl_available, wsl_gcc_available,
         wsl_valgrind_available, text_area, fs, platform, last>>

(***************************************************************************)
(* Bounds.                                                                 *)
(***************************************************************************)
\* Compile and Analyze are taken while the log holds at most MaxAppended
\* items after the tool status that starts it.
MaxAppended == 2
\* Longest path given to the path translation.
MaxPathLen == 4
\* Longest checker text (in fragments) given to the parser.
MaxTextLen == 4

(***************************************************************************)
(* Sequences.                                                              *)
(***************************************************************************)
Range(q) == {q[i] : i \in 1..Len(q)}

SeqsUpTo(S, n) == UNION {[1..k -> S] : k \in 0..n}

\* q[i:] and q[:j] of Python, 0-based i, for 0 <= i
From(q, i) == SubSeq(q, i + 1, Len(q))
\* q[:-n]
DropLast(q, n) == SubSeq(q, 1, Len(q) - n)

EndsWith(q, suf) ==
    /\ Len(suf) <= Len(q)
    /\ SubSeq(q, Len(q) - Len(suf) + 1, Len(q)) = suf

(***************************************************************************)
(* Strings of the program.                                                 *)
(***************************************************************************)
Whitespace == {" ", "\n"}

\* str.strip()
RECURSIVE LStrip(_)
LStrip(q) == IF q # <<>> /\ Head(q) \in Whitespace THEN LStrip(Tail(q)) ELSE q

RECURSIVE RStrip(_)
RStrip(q) ==
    IF q # <<>> /\ q[Len(q)] \in Whitespace THEN RStrip(DropLast(q, 1)) ELSE q

Strip(q) == LStrip(RStrip(q))

\* str.lower() on one character
Lower(c) ==
    CASE c = "C" -> "c"
      [] c = "D" -> "d"
      [] OTHER -> c

DotC == <<".", "c">>
DotExe == <<".", "e", "x", "e">>
Mnt == <<"/", "m", "n", "t", "/">>

\* str.replace('\\', '/')
ReplaceBackslash(p) == [i \in 1..Len(p) |-> IF p[i] = "\\" THEN "/" ELSE p[i]]

\* MemoryLeakGUI._windows_path_to_wsl
windows_path_to_wsl(windows_path) ==
    LET wsl_path == ReplaceBackslash(windows_path) IN
    IF ":" \in Range(wsl_path)
    THEN Mnt \o <<Lower(wsl_path[1])>> \o From(wsl_path, 2)
    ELSE wsl_path

\* os.path.basename: what follows the last separator; ntpath on Windows
\* (both separators, after the drive is split off), posixpath elsewhere
RECURSIVE TailAfter(_, _)
TailAfter(p, seps) ==
    IF p = <<>> \/ p[Len(p)] \in seps THEN <<>>
    ELSE Append(TailAfter(DropLast(p, 1), seps), p[Len(p)])

Seps == {"/", "\\"}

\* normp.find(sep, start): the first separator of p at or after start, 0 if none
FindSep(p, start) ==
    LET hits == {i \in start..Len(p) : p[i] \in Seps} IN
    IF hits = {} THEN 0 ELSE CHOOSE i \in hits : \A j \in hits : i <= j

\* normp[:8].upper() == '\\\\?\\UNC\\'
UncPrefix(p) ==
    /\ Len(p) >= 8
    /\ p[1] \in Seps /\ p[2] \in Seps /\ p[3] = "?" /\ p[4] \in Seps
    /\ p[5] \in {"U", "u"} /\ p[6] \in {"N", "n"} /\ p[7] \in {"C", "c"}
    /\ p[8] \in Seps

\* ntpath.splitdrive(p)[1]: p without its drive.  A path that starts with
\* two separators is a UNC path, whose drive is \\server\share: it runs to
\* the second separator after the prefix, and to the end of the path when
\* there are not two.  Otherwise the drive is a letter and a colon, or empty.
WithoutDrive(p) ==
    IF Len(p) >= 2 /\ p[1] \in Seps /\ p[2] \in Seps
    THEN LET index == FindSep(p, IF UncPrefix(p) THEN 9 ELSE 3)
             index2 == IF index = 0 THEN 0 ELSE FindSep(p, index + 1)
         IN  IF index2 = 0 THEN <<>> ELSE SubSeq(p, index2, Len(p))
    ELSE IF Len(p) >= 2 /\ p[2] = ":" THEN From(p, 2)
    ELSE p

basename(p, system) ==
    IF system = "Windows"
    THEN TailAfter(WithoutDrive(p), Seps)
    ELSE TailAfter(p, {"/"})


(***************************************************************************)
(* External processes.  The outcome of one subprocess.run: the process     *)
(* exits (returncode, stdout, stderr), or run raises FileNotFoundError,    *)
(* subprocess.TimeoutExpired or another exception (PermissionError is the  *)
(* one chosen here).                                                        *)
(***************************************************************************)
Exit(rc, out, err) == [kind |-> "exit", rc |-> rc, stdout |-> out, stderr |-> err]
Raises(e) == [kind |-> e]

Exceptions == {"FileNotFoundError", "TimeoutExpired", "PermissionError"}

\* one version query: the output is captured and never read
ProbeOutcomes == {Exit(0, <<>>, <<>>), Exit(1, <<>>, <<>>)} \cup {Raises(e) : e \in Exceptions}

\* subprocess.run(cmd + args): the invocation is recorded with its outcome
Run(s, cmd, args, o) ==
    [s EXCEPT !.calls = Append(@, [cmd |-> cmd, args |-> args, o |-> o]),
              !.raise = IF o.kind = "exit" THEN "none" ELSE o.kind]

\* an except clause taking the exception in flight
Caught(s) == [s EXCEPT !.raise = "none"]

\* self.text_area.insert(tk.END, ...)
Insert(s, t, a) == [s EXCEPT !.log = Append(@, [t |-> t, a |-> a])]

\* tools_status.append(...)
Status(s, line) == [s EXCEPT !.tools_status = Append(@, [t |-> line, a |-> <<>>])]

\* messagebox.showerror / showinfo
Notice(s, kind, t, a) ==
    [s EXCEPT !.notices = Append(@, [kind |-> kind, t |-> t, a |-> a])]

Rule == "=================================================="
Dashes == "--------------------------------------------------"
Bangs == "!!!!!!!!!!!!!!!!!!!!!!!!!!!!!!!!!!!!!!!!!!!!!!!!!!"

(***************************************************************************)
(* Tool detection.                                                         *)
(***************************************************************************)
\* MemoryLeakGUI._check_windows_gcc
check_windows_gcc(s, o) ==
    LET r == Run(s, "gcc --version", <<>>, o) IN
    IF r.raise = "none"
    THEN IF o.rc = 0
         THEN Status(r, "[OK] GCC compiler available (Windows)")
         ELSE Status(r, "[X] GCC compiler not found (Windows)")
    ELSE IF r.raise \in {"FileNotFoundError", "TimeoutExpired"}
         THEN Status(Caught(r), "[X] GCC compiler not found (Windows)")
         ELSE r

\* MemoryLeakGUI._check_windows_valgrind
check_windows_valgrind(s, o) ==
    LET r == Run(s, "valgrind --version", <<>>, o) IN
    IF r.raise = "none"
    THEN IF o.rc = 0
         THEN Status(r, "[OK] Valgrind available (Windows)")
         ELSE Status(r, "[X] Valgrind not available (Windows)")
    ELSE IF r.raise \in {"FileNotFoundError", "TimeoutExpired"}
         THEN Status(Caught(r), "[X] Valgrind not available (Windows)")
         ELSE r

\* MemoryLeakGUI._check_wsl_gcc
check_wsl_gcc(s, o) ==
    LET r == Run(s, "wsl gcc --version", <<>>, o) IN
    IF r.raise = "none"
    THEN IF o.rc = 0
         THEN [Status(r, "[OK] GCC available in WSL") EXCEPT !.wsl_gcc = TRUE]
         ELSE Status(r, "[X] GCC not installed in WSL")
    ELSE IF r.raise \in {"FileNotFoundError", "TimeoutExpired"}
         THEN Status(Caught(r), "[X] GCC not installed in WSL")
         ELSE r

\* _check_wsl_valgrind with TimeoutExpired left out of the except clause
check_wsl_valgrind_timeout_escapes(s, o) ==
    LET r == Run(s, "wsl valgrind --version", <<>>, o) IN
    IF r.raise = "none"
    THEN IF o.rc = 0
         THEN [Status(r, "[OK] Valgrind available in WSL") EXCEPT !.wsl_valgrind = TRUE]
         ELSE Status(r, "[X] Valgrind not installed in WSL")
    ELSE IF r.raise \in {"FileNotFoundError"}
         THEN Status(Caught(r), "[X] Valgrind not installed in WSL")
         ELSE r

\* MemoryLeakGUI._check_wsl_valgrind
check_wsl_valgrind(s, o) ==
    LET r == Run(s, "wsl valgrind --version", <<>>, o) IN
    IF r.raise = "none"
    THEN IF o.rc = 0
         THEN [Status(r, "[OK] Valgrind available in WSL") EXCEPT !.wsl_valgrind = TRUE]
         ELSE Status(r, "[X] Valgrind not installed in WSL")
    ELSE IF r.raise \in {"FileNotFoundError", "TimeoutExpired"}
         THEN Status(Caught(r), "[X] Valgrind not installed in WSL")
         ELSE r

\* MemoryLeakGUI._check_wsl_tools; an exception of the two inner checks that
\* they do not take themselves meets this method's except clause too
check_wsl_tools(s, env) ==
    LET r == Run(s, "wsl --status", <<>>, env.wsl)
        handler(x) ==
            IF x.raise \in {"FileNotFoundError", "TimeoutExpired"}
            THEN Status(Caught(x), "[X] WSL not available")
            ELSE x
    IN
    IF r.raise = "none"
    THEN IF env.wsl.rc = 0
         THEN LET r1 == [Status(r, "[OK] WSL available") EXCEPT !.wsl = TRUE]
                  r2 == check_wsl_gcc(r1, env.wsl_gcc)
              IN  IF r2.raise # "none" THEN handler(r2)
                  ELSE handler(check_wsl_valgrind(r2, env.wsl_valgrind))
         ELSE Status(r, "[X] WSL not available")
    ELSE handler(r)

\* MemoryLeakGUI._display_tool_status
RECURSIVE InsertAll(_, _)
InsertAll(s, lines) ==
    IF lines = <<>> THEN s
    ELSE InsertAll(Insert(s, Head(lines).t, Head(lines).a), Tail(lines))

display_tool_status(s) ==
    LET s1 == Insert(Insert(Insert(s, Rule, <<>>), "TOOL STATUS", <<>>), Rule, <<>>)
        s2 == InsertAll(s1, s.tools_status)
        s3 == IF s2.wsl /\ (~s2.wsl_gcc \/ ~s2.wsl_valgrind)
              THEN Insert(Insert(Insert(Insert(Insert(s2,
                       Rule, <<>>),
                       "SETUP INSTRUCTIONS", <<>>),
                       Rule, <<>>),
                       "To install missing tools, open Ubuntu from Start Menu and run:", <<>>),
                       "  sudo apt update && sudo apt install -y gcc valgrind", <<>>)
              ELSE s2
    IN  Insert(s3, Rule, <<>>)

\* check_tools without the three assignments that reset the flags
check_tools_keeps_flags(s, env) ==
    LET s0 == [s EXCEPT !.tools_status = <<>>]
        s1 == check_windows_gcc(s0, env.gcc)
        s2 == IF s1.raise # "none" THEN s1 ELSE check_windows_valgrind(s1, env.valgrind)
        s3 == IF s2.raise # "none" THEN s2 ELSE check_wsl_tools(s2, env)
    IN  IF s3.raise # "none" THEN s3 ELSE display_tool_status(s3)

\* MemoryLeakGUI.check_tools
check_tools(s, env) ==
    LET s0 == [s EXCEPT !.tools_status = <<>>, !.wsl = FALSE,
                        !.wsl_gcc = FALSE, !.wsl_valgrind = FALSE]
        s1 == check_windows_gcc(s0, env.gcc)
        s2 == IF s1.raise # "none" THEN s1 ELSE check_windows_valgrind(s1, env.valgrind)
        s3 == IF s2.raise # "none" THEN s2 ELSE check_wsl_tools(s2, env)
    IN  IF s3.raise # "none" THEN s3 ELSE display_tool_status(s3)

\* MemoryLeakGUI.clear_output
clear_output(s, env) == check_tools([s EXCEPT !.log = <<>>], env)


(***************************************************************************)
(* The Valgrind output parser.                                             *)
(***************************************************************************)
NoLeaksPhrase == "All heap blocks were freed -- no leaks are possible"
LeakSummary == "LEAK SUMMARY"
HeapUsage == "total heap usage: "
BytesAllocated == " bytes allocated"
Blocks == " blocks"
Newline == "\n"

\* the fragments that hold a colon; each is <head>: followed by one space
ColonHead(f) ==
    CASE f = "total heap usage: " -> "total heap usage"
      [] f = "definitely lost: " -> "definitely lost"
      [] f = "indirectly lost: " -> "indirectly lost"
      [] f = "possibly lost: " -> "possibly lost"
      [] f = "still reachable: " -> "still reachable"
      [] f = "suppressed: " -> "suppressed"
      [] OTHER -> ""

HasColon(f) == ColonHead(f) # ""

\* the fragments that start with a blank, without it
LStripFragment(f) ==
    CASE f = " blocks" -> "blocks"
      [] f = " bytes allocated" -> "bytes allocated"
      [] OTHER -> f

\* str.strip() of a text given in fragments (no fragment ends with a blank
\* once the colon fragments are split)
StripFragments(q) ==
    LET body == Strip(q) IN
    IF body = <<>> THEN <<>>
    ELSE <<LStripFragment(Head(body))>> \o Tail(body)

\* the fragment f up to the end of the last occurrence in it of the literal
\* final, "" when the literal does not occur in it.  The search works on
\* characters: " blocks" also occurs inside the no-leaks phrase ("All heap
\* blocks were freed ...").
UpToLast(f, final) ==
    CASE f = final -> f
      [] f = NoLeaksPhrase /\ final = Blocks -> "All heap blocks"
      [] OTHER -> ""

\* re.search(first + ".*" + final, text): <<i, j>>, the fragments the match
\* spans, or <<>>.  The match starts at the leftmost first that a final
\* follows on the same line and, .* being greedy, ends with the last final
\* of that line, which may lie inside fragment j.
SameLine(text, i, j) == \A k \in i..j : text[k] # Newline

RegexSearch(text, first, final) ==
    LET starts == {i \in 1..Len(text) :
                     /\ text[i] = first
                     /\ \E j \in (i + 1)..Len(text) :
                          UpToLast(text[j], final) # "" /\ SameLine(text, i, j)}
    IN  IF starts = {} THEN <<>>
        ELSE LET i == CHOOSE x \in starts : \A y \in starts : x <= y
                 ends == {j \in (i + 1)..Len(text) :
                            UpToLast(text[j], final) # "" /\ SameLine(text, i, j)}
                 j == CHOOSE x \in ends : \A y \in ends : y <= x
             IN  <<i, j>>

\* match.group() of the match m: the fragments it spans, the last one cut
\* where the match ends
MatchGroup(text, m, final) ==
    Append(SubSeq(text, m[1], m[2] - 1), UpToLast(text[m[2]], final))

\* match.group().split(':')[1].strip() for a match whose first fragment is a
\* label: what lies between the label's colon and the next colon
SplitColonField(group) ==
    LET rest == Tail(group)
        colons == {k \in 1..Len(rest) : HasColon(rest[k])}
        piece == IF colons = {} THEN rest
                 ELSE LET k == CHOOSE x \in colons : \A y \in colons : x <= y
                      IN  Append(SubSeq(rest, 1, k - 1), ColonHead(rest[k]))
    IN  StripFragments(<<" ">> \o piece)

leak_patterns ==
    << [first |-> "definitely lost: ", label |-> "  Definitely lost: "],
       [first |-> "indirectly lost: ", label |-> "  Indirectly lost: "],
       [first |-> "possibly lost: ", label |-> "  Possibly lost: "],
       [first |-> "still reachable: ", label |-> "  Still reachable: "],
       [first |-> "suppressed: ", label |-> "  Suppressed: "] >>

\* the for loop over leak_patterns, from the n-th pattern on
RECURSIVE InsertLeakLines(_, _, _)
InsertLeakLines(s, text, n) ==
    IF n > Len(leak_patterns) THEN s
    ELSE LET m == RegexSearch(text, leak_patterns[n].first, Blocks)
             s1 == IF m # <<>>
                   THEN Insert(s, leak_patterns[n].label,
                               SplitColonField(MatchGroup(text, m, Blocks)))
                   ELSE s
         IN  InsertLeakLines(s1, text, n + 1)

\* the verdict with the test turned round
insert_verdict_inverted(s, valgrind_stderr) ==
    IF NoLeaksPhrase \notin Range(valgrind_stderr)
    THEN Insert(s, "[OK] RESULT: No memory leaks detected!", <<>>)
    ELSE Insert(s, "[!] RESULT: Memory leaks detected!", <<>>)

\* parse_valgrind_output, lines 545-549: the verdict
insert_verdict(s, valgrind_stderr) ==
    IF NoLeaksPhrase \in Range(valgrind_stderr)
    THEN Insert(s, "[OK] RESULT: No memory leaks detected!", <<>>)
    ELSE Insert(s, "[!] RESULT: Memory leaks detected!", <<>>)

\* parse_valgrind_output, lines 551-554: the byte-usage summary
insert_memory_usage(s, valgrind_stderr) ==
    LET memory_summary == RegexSearch(valgrind_stderr, HeapUsage, BytesAllocated) IN
    IF memory_summary # <<>>
    THEN Insert(s, "Memory usage: ",
                MatchGroup(valgrind_stderr, memory_summary, BytesAllocated))
    ELSE s

\* the leak summary printed without looking for the section header
insert_leak_summary_ungated(s, valgrind_stderr) ==
    InsertLeakLines(
        Insert(Insert(Insert(s, Dashes, <<>>), "Leak Summary:", <<>>), Dashes, <<>>),
        valgrind_stderr, 1)

\* parse_valgrind_output, lines 556-573: the leak summary
insert_leak_summary(s, valgrind_stderr) ==
    IF LeakSummary \in Range(valgrind_stderr)
    THEN InsertLeakLines(
             Insert(Insert(Insert(s, Dashes, <<>>), "Leak Summary:", <<>>), Dashes, <<>>),
             valgrind_stderr, 1)
    ELSE s

\* parse_valgrind_output, lines 575-579: the full output
insert_full_output(s, valgrind_stderr) ==
    Insert(Insert(Insert(Insert(s, Rule, <<>>), "Full Valgrind Output:", <<>>),
                  Rule, <<>>), "", valgrind_stderr)

\* MemoryLeakGUI.parse_valgrind_output
parse_valgrind_output(s, valgrind_stderr) ==
    insert_full_output(
        insert_leak_summary(
            insert_memory_usage(
                insert_verdict(s, valgrind_stderr),
                valgrind_stderr),
            valgrind_stderr),
        valgrind_stderr)


(***************************************************************************)
(* Compilation.                                                            *)
(***************************************************************************)
\* the file a successful compiler run leaves behind
Produced(s, path) == [s EXCEPT !.fs = @ \cup {path}]

\* _compile_with_wsl_gcc storing the translated executable path
compile_with_wsl_gcc_stores_wsl_path(s, file_path, o) ==
    LET s1 == Insert(s, "Using WSL GCC compiler...", <<>>)
        wsl_path == windows_path_to_wsl(file_path)
        exe_name == DropLast(file_path, 2)
        wsl_exe == DropLast(wsl_path, 2)
        r == Run(s1, "wsl gcc -g -o", <<wsl_exe, wsl_path>>, o)
    IN  IF r.raise # "none" THEN r
        ELSE IF o.rc = 0
        THEN [Produced(Insert(Insert(r, "[OK] Compilation successful!", <<>>),
                              "  Executable: ", wsl_exe), exe_name)
                EXCEPT !.entry = wsl_exe,
                       !.status = "Compilation successful (WSL)",
                       !.ret = TRUE]
        ELSE [Insert(r, "[X] Compilation failed:", o.stderr)
                EXCEPT !.status = "Compilation failed", !.ret = FALSE]

\* MemoryLeakGUI._compile_with_wsl_gcc; the value returned is left in s.ret
compile_with_wsl_gcc(s, file_path, o) ==
    LET s1 == Insert(s, "Using WSL GCC compiler...", <<>>)
        wsl_path == windows_path_to_wsl(file_path)
        exe_name == DropLast(file_path, 2)
        wsl_exe == DropLast(wsl_path, 2)
        r == Run(s1, "wsl gcc -g -o", <<wsl_exe, wsl_path>>, o)
    IN  IF r.raise # "none" THEN r
        ELSE IF o.rc = 0
        THEN [Produced(Insert(Insert(r, "[OK] Compilation successful!", <<>>),
                              "  Executable: ", exe_name), exe_name)
                EXCEPT !.entry = exe_name,
                       !.status = "Compilation successful (WSL)",
                       !.ret = TRUE]
        ELSE [Insert(r, "[X] Compilation failed:", o.stderr)
                EXCEPT !.status = "Compilation failed", !.ret = FALSE]

\* the native compile leaving the status alone when the compiler exits with
\* a non-zero status
compile_with_windows_gcc_failure_keeps_status(s, file_path, system, o) ==
    LET s1 == Insert(s, "Using Windows GCC compiler...", <<>>)
        exe_name == IF system = "Windows" THEN DropLast(file_path, 2) \o DotExe
                    ELSE DropLast(file_path, 2)
        r == Run(s1, "gcc -g -o", <<exe_name, file_path>>, o)
    IN  IF r.raise # "none" THEN r
        ELSE IF o.rc = 0
        THEN [Produced(Insert(Insert(r, "[OK] Compilation successful!", <<>>),
                              "  Executable: ", exe_name), exe_name)
                EXCEPT !.entry = exe_name,
                       !.status = "Compilation successful"]
        ELSE Insert(r, "[X] Compilation failed:", o.stderr)

\* MemoryLeakGUI._compile_with_windows_gcc
compile_with_windows_gcc(s, file_path, system, o) ==
    LET s1 == Insert(s, "Using Windows GCC compiler...", <<>>)
        exe_name == IF system = "Windows" THEN DropLast(file_path, 2) \o DotExe
                    ELSE DropLast(file_path, 2)
        r == Run(s1, "gcc -g -o", <<exe_name, file_path>>, o)
    IN  IF r.raise # "none" THEN r
        ELSE IF o.rc = 0
        THEN [Produced(Insert(Insert(r, "[OK] Compilation successful!", <<>>),
                              "  Executable: ", exe_name), exe_name)
                EXCEPT !.entry = exe_name,
                       !.status = "Compilation successful"]
        ELSE [Insert(r, "[X] Compilation failed:", o.stderr)
                EXCEPT !.status = "Compilation failed"]

\* the try statement returning after the WSL attempt, whatever its result
compile_try_stops_after_wsl(s, file_path, system, env) ==
    LET w == IF s.wsl /\ s.wsl_gcc
             THEN compile_with_wsl_gcc(s, file_path, env.wsl_gcc)
             ELSE s
        body == IF w.raise # "none" THEN w
                ELSE IF s.wsl /\ s.wsl_gcc THEN w
                ELSE compile_with_windows_gcc(w, file_path, system, env.gcc)
    IN  IF body.raise = "none" THEN body
        ELSE IF body.raise = "FileNotFoundError"
        THEN [Insert(Notice(Caught(body), "error", "GCC compiler not found!", <<>>),
                     "[X] GCC compiler not found!", <<>>)
                EXCEPT !.status = "GCC not found"]
        ELSE [Insert(Notice(Caught(body), "error", "Compilation error: ", <<body.raise>>),
                     "[X] Unexpected error: ", <<body.raise>>)
                EXCEPT !.status = "Compilation error"]

\* compile_c_file, lines 323-343: the try statement
compile_try(s, file_path, system, env) ==
    LET w == IF s.wsl /\ s.wsl_gcc
             THEN compile_with_wsl_gcc(s, file_path, env.wsl_gcc)
             ELSE s
        body == IF w.raise # "none" THEN w
                ELSE IF s.wsl /\ s.wsl_gcc /\ w.ret THEN w
                ELSE compile_with_windows_gcc(w, file_path, system, env.gcc)
    IN  IF body.raise = "none" THEN body
        ELSE IF body.raise = "FileNotFoundError"
        THEN [Insert(Notice(Caught(body), "error", "GCC compiler not found!", <<>>),
                     "[X] GCC compiler not found!", <<>>)
                EXCEPT !.status = "GCC not found"]
        ELSE [Insert(Notice(Caught(body), "error", "Compilation error: ", <<body.raise>>),
                     "[X] Unexpected error: ", <<body.raise>>)
                EXCEPT !.status = "Compilation error"]

\* compile_c_file without the three validation returns
compile_c_file_unguarded(s, system, env) ==
    LET file_path == Strip(s.entry)
        s1 == [s EXCEPT !.status = "Compiling..."]
        s2 == Insert(Insert(Insert(s1, Rule, <<>>),
                            "COMPILING: ", basename(file_path, system)), Rule, <<>>)
    IN  compile_try(s2, file_path, system, env)

\* MemoryLeakGUI.compile_c_file
compile_c_file(s, system, env) ==
    LET file_path == Strip(s.entry) IN
    IF file_path = <<>>
    THEN Notice(s, "error", "Please select a C source file!", <<>>)
    ELSE IF ~EndsWith(file_path, DotC)
    THEN Notice(s, "info", "Selected file is not a C source file (.c)", <<>>)
    ELSE IF file_path \notin s.fs
    THEN Notice(s, "error", "File not found: ", file_path)
    ELSE LET s1 == [s EXCEPT !.status = "Compiling..."]
             s2 == Insert(Insert(Insert(s1, Rule, <<>>),
                                 "COMPILING: ", basename(file_path, system)), Rule, <<>>)
         IN  compile_try(s2, file_path, system, env)


(***************************************************************************)
(* Memory analysis.                                                        *)
(***************************************************************************)
\* MemoryLeakGUI._run_wsl_valgrind; the value returned is left in s.ret
run_wsl_valgrind(s, executable_path, o) ==
    LET s1 == Insert(s, "Running Valgrind memory check (WSL)...", <<>>)
        wsl_path == windows_path_to_wsl(executable_path)
        r == Run(s1, "wsl valgrind --leak-check=full --track-origins=yes --show-leak-kinds=all",
                 <<wsl_path>>, o)
    IN  IF r.raise = "none"
        THEN [parse_valgrind_output(r, o.stderr)
                EXCEPT !.status = "Valgrind analysis complete (WSL)", !.ret = TRUE]
        ELSE IF r.raise = "TimeoutExpired"
        THEN [Insert(Insert(Caught(r),
                            "[!] Valgrind execution timed out (30 seconds)", <<>>),
                     "The program may be hanging or taking too long.", <<>>)
                EXCEPT !.ret = FALSE]
        ELSE [Insert(Caught(r), "[X] WSL Valgrind error: ", <<r.raise>>)
                EXCEPT !.ret = FALSE]

\* MemoryLeakGUI._run_native_valgrind; the value returned is left in s.ret
run_native_valgrind(s, executable_path, o) ==
    LET s1 == Insert(s, "Trying native Valgrind...", <<>>)
        r == Run(s1, "valgrind --leak-check=full --track-origins=yes",
                 <<executable_path>>, o)
    IN  IF r.raise = "none"
        THEN [parse_valgrind_output(r, o.stderr)
                EXCEPT !.status = "Valgrind analysis complete", !.ret = TRUE]
        ELSE IF r.raise = "FileNotFoundError"
        THEN [Insert(Insert(Insert(Caught(r),
                                   "[!] Valgrind not available.", <<>>),
                            "Install Valgrind in WSL for memory leak detection.", <<>>),
                     "Falling back to basic analysis...", <<>>)
                EXCEPT !.ret = FALSE]
        ELSE IF r.raise = "TimeoutExpired"
        THEN [Insert(Caught(r), "[!] Valgrind execution timed out", <<>>)
                EXCEPT !.ret = FALSE]
        ELSE [Caught(r) EXCEPT !.ret = FALSE]

\* try_valgrind going on to the native checker when the WSL run fails
try_valgrind_cascades(s, executable_path, env) ==
    IF s.wsl /\ s.wsl_valgrind
    THEN LET w == run_wsl_valgrind(s, executable_path, env.wsl_valgrind) IN
         IF w.ret THEN w ELSE run_native_valgrind(w, executable_path, env.valgrind)
    ELSE run_native_valgrind(s, executable_path, env.valgrind)

\* MemoryLeakGUI.try_valgrind
try_valgrind(s, executable_path, env) ==
    IF s.wsl /\ s.wsl_valgrind
    THEN run_wsl_valgrind(s, executable_path, env.wsl_valgrind)
    ELSE run_native_valgrind(s, executable_path, env.valgrind)

\* basic_analysis without the closing reminder
basic_analysis_no_reminder(s, executable_path, o) ==
    LET s1 == Insert(Insert(Insert(s, Dashes, <<>>),
                            "Running basic execution (no memory leak detection)...", <<>>),
                     Dashes, <<>>)
        r == Run(s1, "", <<executable_path>>, o)
    IN  IF r.raise = "none"
        THEN LET a == Insert(r, "Exit code: ", <<ToString(o.rc)>>)
                 b == IF o.rc = 0 THEN Insert(a, " (Success)", <<>>)
                      ELSE Insert(a, " (Error)", <<>>)
                 c == IF o.stdout # <<>> THEN Insert(b, "Program output:", o.stdout) ELSE b
                 d == IF o.stderr # <<>> THEN Insert(c, "Program errors:", o.stderr) ELSE c
             IN  [d EXCEPT !.status = "Basic analysis complete (no leak detection)"]
        ELSE IF r.raise = "TimeoutExpired"
        THEN [Insert(Insert(Caught(r),
                            "[!] Program execution timed out (10 seconds)", <<>>),
                     "The program may be hanging or waiting for input.", <<>>)
                EXCEPT !.status = "Execution timed out"]
        ELSE [Insert(Caught(r), "[X] Execution error: ", <<r.raise>>)
                EXCEPT !.status = "Execution error"]

\* MemoryLeakGUI.basic_analysis
basic_analysis(s, executable_path, o) ==
    LET s1 == Insert(Insert(Insert(s, Dashes, <<>>),
                            "Running basic execution (no memory leak detection)...", <<>>),
                     Dashes, <<>>)
        r == Run(s1, "", <<executable_path>>, o)
    IN  IF r.raise = "none"
        THEN LET a == Insert(r, "Exit code: ", <<ToString(o.rc)>>)
                 b == IF o.rc = 0 THEN Insert(a, " (Success)", <<>>)
                      ELSE Insert(a, " (Error)", <<>>)
                 c == IF o.stdout # <<>> THEN Insert(b, "Program output:", o.stdout) ELSE b
                 d == IF o.stderr # <<>> THEN Insert(c, "Program errors:", o.stderr) ELSE c
                 e == Insert(Insert(Insert(Insert(d,
                          Bangs, <<>>),
                          "[!] NOTE: Memory leak detection requires Valgrind!", <<>>),
                          "Install WSL and Valgrind for full memory analysis.", <<>>),
                          Bangs, <<>>)
             IN  [e EXCEPT !.status = "Basic analysis complete (no leak detection)"]
        ELSE IF r.raise = "TimeoutExpired"
        THEN [Insert(Insert(Caught(r),
                            "[!] Program execution timed out (10 seconds)", <<>>),
                     "The program may be hanging or waiting for input.", <<>>)
                EXCEPT !.status = "Execution timed out"]
        ELSE [Insert(Caught(r), "[X] Execution error: ", <<r.raise>>)
                EXCEPT !.status = "Execution error"]

\* MemoryLeakGUI.analyze_memory
analyze_memory(s, system, env) ==
    LET executable_path == Strip(s.entry) IN
    IF executable_path = <<>>
    THEN Notice(s, "error", "Please select an executable file!", <<>>)
    ELSE IF executable_path \notin s.fs
    THEN Notice(s, "error", "File not found: ", executable_path)
    ELSE LET s1 == [s EXCEPT !.status = "Analyzing memory..."]
             s2 == Insert(Insert(Insert(s1, Rule, <<>>),
                                 "MEMORY ANALYSIS: ", basename(executable_path, system)),
                          Rule, <<>>)
             v == try_valgrind(s2, executable_path, env)
             body == IF v.raise # "none" THEN v
                     ELSE IF v.ret THEN v
                     ELSE basic_analysis(v, executable_path, env.run)
         IN  IF body.raise = "none" THEN body
             ELSE [Insert(Notice(Caught(body), "error", "Analysis error: ", <<body.raise>>),
                          "[X] Error: ", <<body.raise>>)
                     EXCEPT !.status = "Analysis error"]


(***************************************************************************)
(* The inputs: what the user enters and what the environment answers.      *)
(***************************************************************************)
SourceWin == <<"C", ":", "\\", "a", ".", "c">>
SourcePadded == <<" ", "C", ":", "\\", "a", ".", "c", " ">>
SourceMissing == <<"x", ".", "c">>
Program == <<"b">>

\* what browse_file or typing can leave in the entry
UserPaths == {<<>>, SourceWin, SourcePadded, SourceMissing, Program}

\* the files there are when the program starts
InitialFiles == {SourceWin, Program}

Systems == {"Windows", "Linux"}

\* the answer standing for a command that the handler does not get to run
NotRun == Raises("FileNotFoundError")

\* the answers to the five version queries; a query that is not made (the
\* two WSL tools when wsl --status does not exit with zero) has no answer
ProbeEnvsOver(outcomes) ==
    {env \in [gcc : outcomes, valgrind : outcomes, wsl : outcomes,
              wsl_gcc : outcomes \cup {NotRun}, wsl_valgrind : outcomes \cup {NotRun}] :
        \/ env.wsl.kind = "exit" /\ env.wsl.rc = 0
        \/ env.wsl_gcc = NotRun /\ env.wsl_valgrind = NotRun}

\* every answer
ProbeEnvs == ProbeEnvsOver(ProbeOutcomes)

\* subprocess.run of a command that is not on the search path.  With
\* shell=True it is the shell that is launched: it starts, reports the
\* command it cannot find on its error stream and exits with a non-zero
\* status, and no FileNotFoundError is raised (that takes the shell itself
\* to be missing).  With shell=False the launch raises FileNotFoundError.
Absent(shell, message) ==
    IF shell THEN Exit(1, <<>>, message) ELSE Raises("FileNotFoundError")

\* the tool is found or it is not; the version queries go through the shell
FoundOrNot == ProbeEnvsOver({Exit(0, <<>>, <<>>), Absent(TRUE, <<>>)})

CompilerErrors == <<"a.c:1:1: error: expected ';'">>

\* what the shell says of a compiler that is not installed
NotRecognized == <<"'gcc' is not recognized as an internal or external command">>

CompileOutcomes ==
    {Exit(0, <<>>, <<>>), Exit(1, <<>>, CompilerErrors)} \cup {Raises(e) : e \in Exceptions}

\* the answers to the two compile commands, both run with shell=True
CompileEnvs ==
    [wsl_gcc : CompileOutcomes, gcc : CompileOutcomes \cup {Absent(TRUE, NotRecognized)}]

TextClean == <<NoLeaksPhrase, Newline, HeapUsage, "1 allocs, 1 frees, 40", BytesAllocated>>
TextLeaky == <<LeakSummary, Newline, "definitely lost: ", "40 bytes in 2", Blocks>>

ValgrindOutcomes ==
    {Exit(rc, <<>>, text) : rc \in {0, 1}, text \in {TextClean, TextLeaky}}
        \cup {Raises(e) : e \in Exceptions}

RunOutcomes ==
    {Exit(0, out, err) : out \in {<<>>, <<"hello">>}, err \in {<<>>, <<"oops">>}}
        \cup {Exit(1, <<>>, <<"oops">>)}
        \cup {Raises(e) : e \in Exceptions}

\* the answers to the commands of one analysis.  With the WSL checker
\* flagged the native one is not the first choice and two answers are kept
\* for it; without, the WSL checker has no answer.
AnalyzeEnvs(s) ==
    IF s.wsl /\ s.wsl_valgrind
    THEN [wsl_valgrind : ValgrindOutcomes,
          valgrind : {Exit(0, <<>>, TextClean), Raises("FileNotFoundError")},
          run : RunOutcomes]
    ELSE [wsl_valgrind : {NotRun}, valgrind : ValgrindOutcomes, run : RunOutcomes]

\* everything installed and working
CompileSucceeds == {[wsl_gcc |-> Exit(0, <<>>, <<>>), gcc |-> Exit(0, <<>>, <<>>)]}
AnalyzeSucceeds ==
    {[wsl_valgrind |-> Exit(0, <<>>, TextClean), valgrind |-> Exit(0, <<>>, TextLeaky),
      run |-> Exit(0, <<>>, <<>>)]}

PathAlphabet == {"C", "d", "a", ":", "\\", "/"}

TextAlphabet ==
    {NoLeaksPhrase, LeakSummary, HeapUsage, BytesAllocated, "definitely lost: ",
     "suppressed: ", "40 bytes in 2", Blocks, Newline}

(***************************************************************************)
(* The state machine.                                                      *)
(***************************************************************************)
\* the object as a handler finds it
Self ==
    [entry |-> process_entry, status |-> status_var, wsl |-> wsl_available,
     wsl_gcc |-> wsl_gcc_available, wsl_valgrind |-> wsl_valgrind_available,
     log |-> text_area, fs |-> fs,
     calls |-> <<>>, notices |-> <<>>, raise |-> "none", ret |-> FALSE,
     tools_status |-> <<>>]

\* MemoryLeakGUI.__init__ before check_tools runs
Constructed ==
    [entry |-> <<>>, status |-> "Ready", wsl |-> FALSE, wsl_gcc |-> FALSE,
     wsl_valgrind |-> FALSE, log |-> <<>>, fs |-> InitialFiles,
     calls |-> <<>>, notices |-> <<>>, raise |-> "none", ret |-> FALSE,
     tools_status |-> <<>>]

\* what is kept of a handler's run: the handler, the stored path it found
\* (for the entry, the path entered),
\* where its part of the log starts, the commands it ran with their answers,
\* its dialogs and the exception it let through
Record(op, log0, s1) ==
    [op |-> op, entry0 |-> process_entry, log0 |-> log0, calls |-> s1.calls,
     notices |-> s1.notices, raise |-> s1.raise]

\* the handler has returned (or raised): the object is as it left it
Returned(op, log0, s1) ==
    /\ process_entry' = s1.entry
    /\ status_var' = s1.status
    /\ wsl_available' = s1.wsl
    /\ wsl_gcc_available' = s1.wsl_gcc
    /\ wsl_valgrind_available' = s1.wsl_valgrind
    /\ text_area' = s1.log
    /\ fs' = s1.fs
    /\ last' = Record(op, log0, s1)

\* the state after construction, for the answers env of the version
\* queries; a construction that raises leaves no object
Started(env, system) ==
    LET s1 == check_tools(Constructed, env) IN
    /\ s1.raise = "none"
    /\ process_entry = s1.entry
    /\ status_var = s1.status
    /\ wsl_available = s1.wsl
    /\ wsl_gcc_available = s1.wsl_gcc
    /\ wsl_valgrind_available = s1.wsl_valgrind
    /\ text_area = s1.log
    /\ fs = s1.fs
    /\ platform = system
    /\ last = [op |-> "init", entry0 |-> <<>>, log0 |-> 0, calls |-> s1.calls,
               notices |-> s1.notices, raise |-> s1.raise]

\* the items that Compile and Analyze have appended to the log since it was
\* cleared: each starts its part with a rule and its heading
Appended(log) ==
    LET heads == {i \in 1..Len(log) : log[i].t \in {"COMPILING: ", "MEMORY ANALYSIS: "}} IN
    IF heads = {} THEN 0
    ELSE Len(log) + 2 - (CHOOSE i \in heads : \A j \in heads : i <= j)

\* browse_file, or typing into the entry
SetPathIn(paths) ==
    \E p \in paths :
        /\ process_entry' = p
        /\ last' = [op |-> "set", entry0 |-> p, log0 |-> Len(text_area),
                    calls |-> <<>>, notices |-> <<>>, raise |-> "none"]
        /\ UNCHANGED <<status_var, wsl_available, wsl_gcc_available,
                       wsl_valgrind_available, text_area, fs, platform, arg, ret>>

\* the Compile button
CompileWith(envs) ==
    /\ Appended(text_area) <= MaxAppended
    /\ \E env \in envs :
           Returned("compile", Len(text_area), compile_c_file(Self, platform, env))
    /\ UNCHANGED <<platform, arg, ret>>

\* the Analyze button
AnalyzeWith(envs) ==
    /\ Appended(text_area) <= MaxAppended
    /\ \E env \in envs :
           Returned("analyze", Len(text_area), analyze_memory(Self, platform, env))
    /\ UNCHANGED <<platform, arg, ret>>

\* the Clear button
ClearWith(envs) ==
    /\ \E env \in envs : Returned("clear", 0, clear_output(Self, env))
    /\ UNCHANGED <<platform, arg, ret>>

(***************************************************************************)
(* Spec: the three buttons and the entry, with every answer to a compile   *)
(* or analysis command and the version queries finding a tool or not.      *)
(***************************************************************************)
Init ==
    /\ \E env \in FoundOrNot, system \in Systems : Started(env, system)
    /\ arg = <<>>
    /\ ret = <<>>

SetPath == SetPathIn(UserPaths)
Compile == CompileWith(CompileEnvs)
Analyze == AnalyzeWith(AnalyzeEnvs(Self))
Clear == ClearWith(FoundOrNot)

Next == SetPath \/ Compile \/ Analyze \/ Clear

Spec == Init /\ [][Next]_vars

(***************************************************************************)
(* ProbeSpec: the prober with every answer to every version query, between *)
(* compilations and analyses of one source file that succeed.              *)
(***************************************************************************)
ProbeInit ==
    /\ \E env \in ProbeEnvs : Started(env, "Windows")
    /\ arg = <<>>
    /\ ret = <<>>

ProbeSetPath == SetPathIn({SourceWin})
ProbeCompile == CompileWith(CompileSucceeds)
ProbeAnalyze == AnalyzeWith(AnalyzeSucceeds)
ProbeClear == ClearWith(ProbeEnvs)

ProbeNext == ProbeSetPath \/ ProbeCompile \/ ProbeAnalyze \/ ProbeClear

ProbeSpec == ProbeInit /\ [][ProbeNext]_vars

(***************************************************************************)
(* PathSpec: the path translation on every path up to MaxPathLen.          *)
(***************************************************************************)
NothingFound ==
    [gcc |-> Raises("FileNotFoundError"), valgrind |-> Raises("FileNotFoundError"),
     wsl |-> Raises("FileNotFoundError"), wsl_gcc |-> NotRun, wsl_valgrind |-> NotRun]

PathInit ==
    /\ Started(NothingFound, "Windows")
    /\ arg \in SeqsUpTo(PathAlphabet, MaxPathLen)
    /\ ret = <<>>

Translate ==
    /\ ret = <<>>
    /\ ret' = <<windows_path_to_wsl(arg)>>
    /\ UNCHANGED <<gui, arg>>

PathNext == Translate

PathSpec == PathInit /\ [][PathNext]_vars

(***************************************************************************)
(* ParseSpec: the parser on every text up to MaxTextLen, applied twice.    *)
(***************************************************************************)
ParseInit ==
    /\ Started(NothingFound, "Windows")
    /\ arg \in SeqsUpTo(TextAlphabet, MaxTextLen)
    /\ ret = <<>>

Parse ==
    /\ Len(ret) < 2
    /\ LET s1 == parse_valgrind_output(Self, arg) IN
           /\ Returned("parse", Len(text_area), s1)
           /\ ret' = Append(ret, SubSeq(s1.log, Len(text_area) + 1, Len(s1.log)))
    /\ UNCHANGED <<platform, arg>>

ParseNext == Parse

ParseSpec == ParseInit /\ [][ParseNext]_vars


(***************************************************************************)
(* What the handler that ran last did.                                     *)
(***************************************************************************)
\* its part of the log
Emitted == SubSeq(text_area, last.log0 + 1, Len(text_area))

\* the commands it ran, in order
Commands == [i \in 1..Len(last.calls) |-> last.calls[i].cmd]

Item(t, a) == [t |-> t, a |-> a]

WslGccCmd == "wsl gcc -g -o"
GccCmd == "gcc -g -o"
WslValgrindCmd == "wsl valgrind --leak-check=full --track-origins=yes --show-leak-kinds=all"
ValgrindCmd == "valgrind --leak-check=full --track-origins=yes"
DirectCmd == ""

ExitedZero(o) == o.kind = "exit" /\ o.rc = 0
ExitedNonZero(o) == o.kind = "exit" /\ o.rc # 0

(***************************************************************************)
(* C1.  Compile guard.                                                     *)
(***************************************************************************)
\* the step is a run of the Compile handler
CompileStep == last'.op = "compile" /\ last' # last

NothingInvokedNothingChanged ==
    /\ last'.calls = <<>>
    /\ status_var' = status_var
    /\ process_entry' = process_entry
    /\ wsl_available' = wsl_available
    /\ wsl_gcc_available' = wsl_gcc_available
    /\ wsl_valgrind_available' = wsl_valgrind_available

\* C1 as claimed: a Compile started with a stored path that is empty, does
\* not end in ".c" or names no existing file invokes no process and leaves
\* the status, the stored path and the three flags as they were.
C1_CompileGuardOnStoredPath ==
    [][ ( /\ CompileStep
          /\ \/ process_entry = <<>>
             \/ ~EndsWith(process_entry, DotC)
             \/ process_entry \notin fs )
        => NothingInvokedNothingChanged ]_vars

\* C1 as amended: a Compile started with a stored path that, with the white
\* space around it stripped, is empty, does not end in ".c" or names no
\* existing file invokes no process and leaves the status, the stored path
\* and the three flags as they were.
C1_CompileGuard ==
    [][ ( /\ CompileStep
          /\ \/ Strip(process_entry) = <<>>
             \/ ~EndsWith(Strip(process_entry), DotC)
             \/ Strip(process_entry) \notin fs )
        => NothingInvokedNothingChanged ]_vars

\* a Compile of a missing .c file has been turned down with the dialog
C1_Witness ==
    /\ last.op = "compile"
    /\ last.entry0 = SourceMissing
    /\ last.calls = <<>>
    /\ last.notices = <<[kind |-> "error", t |-> "File not found: ", a |-> SourceMissing]>>
    /\ status_var = "Compilation successful"

(***************************************************************************)
(* C2.  Compile success updates the stored path.                           *)
(***************************************************************************)
\* the Compile handler ran on a stored path that is a source file as it stands
CompiledValidSource ==
    /\ last.op = "compile"
    /\ EndsWith(last.entry0, DotC)
    /\ last.entry0 \in InitialFiles

StartsWith(q, pre) == Len(pre) <= Len(q) /\ SubSeq(q, 1, Len(pre)) = pre

\* C2: after a Compile of a valid source path P, a WSL compiler run that
\* exits with zero leaves P without ".c" as the stored path, not the /mnt
\* form, and no native compiler run follows it; a native compiler run that
\* exits with zero leaves P without ".c", plus ".exe" on Windows; and with
\* the WSL flags false the native compiler is the one that is run.
C2_CompileSuccessStoresExecutable ==
    CompiledValidSource =>
        /\ \A i \in 1..Len(last.calls) :
               (last.calls[i].cmd = WslGccCmd /\ ExitedZero(last.calls[i].o)) =>
                   /\ process_entry = DropLast(last.entry0, 2)
                   /\ ~StartsWith(process_entry, Mnt)
                   /\ Commands = <<WslGccCmd>>
        /\ \A i \in 1..Len(last.calls) :
               (last.calls[i].cmd = GccCmd /\ ExitedZero(last.calls[i].o)) =>
                   process_entry = DropLast(last.entry0, 2)
                                     \o (IF platform = "Windows" THEN DotExe ELSE <<>>)
        /\ ~(wsl_available /\ wsl_gcc_available) =>
               /\ Commands = <<GccCmd>>
               /\ last.calls[1].args[2] = last.entry0

\* the WSL compiler has compiled C:\a.c and the stored path is C:\a
C2_Witness ==
    /\ CompiledValidSource
    /\ Commands = <<WslGccCmd>>
    /\ ExitedZero(last.calls[1].o)
    /\ last.calls[1].args = << <<"/", "m", "n", "t", "/", "c", "/", "a">>,
                               <<"/", "m", "n", "t", "/", "c", "/", "a", ".", "c">> >>
    /\ process_entry = <<"C", ":", "\\", "a">>

(***************************************************************************)
(* C3.  Analyze with neither checker available.                            *)
(***************************************************************************)
\* the Analyze handler ran on an existing file with the WSL checker not
\* flagged and found no native checker to launch
AnalyzedWithoutChecker ==
    /\ last.op = "analyze"
    /\ last.entry0 \in fs
    /\ ~wsl_available /\ ~wsl_valgrind_available
    /\ last.calls # <<>>
    /\ last.calls[1].cmd = ValgrindCmd
    /\ last.calls[1].o = Raises("FileNotFoundError")

Has(items, t) == \E i \in 1..Len(items) : items[i].t = t

\* C3: such an analysis ends by executing the target directly; when that
\* execution returns, the log receives the exit status, the standard output
\* and the standard error when they are not empty, and the reminder that no
\* leak detection took place, and the status is the one of basic analysis.
C3_BasicAnalysisWithoutChecker ==
    AnalyzedWithoutChecker =>
        /\ Commands = <<ValgrindCmd, DirectCmd>>
        /\ last.calls[2].args = <<last.entry0>>
        /\ LET o == last.calls[2].o IN
           o.kind = "exit" =>
               /\ \E i \in 1..Len(Emitted) : Emitted[i] = Item("Exit code: ", <<ToString(o.rc)>>)
               /\ o.stdout # <<>> => \E i \in 1..Len(Emitted) :
                                        Emitted[i] = Item("Program output:", o.stdout)
               /\ o.stdout = <<>> => ~Has(Emitted, "Program output:")
               /\ o.stderr # <<>> => \E i \in 1..Len(Emitted) :
                                        Emitted[i] = Item("Program errors:", o.stderr)
               /\ o.stderr = <<>> => ~Has(Emitted, "Program errors:")
               /\ Has(Emitted, "[!] NOTE: Memory leak detection requires Valgrind!")
               /\ status_var = "Basic analysis complete (no leak detection)"

\* the target ran, printed to both streams and the reminder was logged
C3_Witness ==
    /\ AnalyzedWithoutChecker
    /\ Len(last.calls) = 2
    /\ last.calls[2].o = Exit(0, <<"hello">>, <<"oops">>)
    /\ Has(Emitted, "[!] NOTE: Memory leak detection requires Valgrind!")
    /\ status_var = "Basic analysis complete (no leak detection)"

(***************************************************************************)
(* C4.  The probe never throws.                                            *)
(***************************************************************************)
ProbeRan == last.op \in {"init", "clear"}

\* every version query of the probe exited, was not found or timed out
FourOutcomes ==
    \A i \in 1..Len(last.calls) :
        last.calls[i].o.kind \in {"exit", "FileNotFoundError", "TimeoutExpired"}

AvailableLine(cmd) ==
    CASE cmd = "gcc --version" -> "[OK] GCC compiler available (Windows)"
      [] cmd = "valgrind --version" -> "[OK] Valgrind available (Windows)"
      [] cmd = "wsl --status" -> "[OK] WSL available"
      [] cmd = "wsl gcc --version" -> "[OK] GCC available in WSL"
      [] cmd = "wsl valgrind --version" -> "[OK] Valgrind available in WSL"

UnavailableLine(cmd) ==
    CASE cmd = "gcc --version" -> "[X] GCC compiler not found (Windows)"
      [] cmd = "valgrind --version" -> "[X] Valgrind not available (Windows)"
      [] cmd = "wsl --status" -> "[X] WSL not available"
      [] cmd = "wsl gcc --version" -> "[X] GCC not installed in WSL"
      [] cmd = "wsl valgrind --version" -> "[X] Valgrind not installed in WSL"

\* the latest probe made the query cmd and it exited with zero
Succeeded(cmd) ==
    \E i \in 1..Len(last.calls) :
        last.calls[i].cmd = cmd /\ ExitedZero(last.calls[i].o)

\* C4: a probe whose version queries exit (with zero or not), are not found
\* or time out returns normally; it makes the three queries that do not
\* depend on WSL, and the two WSL tool queries when wsl --status exits with
\* zero; each query logs its "available" line when it exits with zero and
\* its cross line otherwise, and a flag is true exactly when its query was
\* made and exited with zero.
C4_ProbeNeverThrows ==
    (ProbeRan /\ FourOutcomes) =>
        /\ last.raise = "none"
        /\ Commands = IF Succeeded("wsl --status")
                      THEN <<"gcc --version", "valgrind --version", "wsl --status",
                             "wsl gcc --version", "wsl valgrind --version">>
                      ELSE <<"gcc --version", "valgrind --version", "wsl --status">>
        /\ Len(text_area) >= 3 + Len(last.calls)
        /\ \A k \in 1..Len(last.calls) :
               text_area[3 + k] =
                   Item(IF ExitedZero(last.calls[k].o)
                        THEN AvailableLine(last.calls[k].cmd)
                        ELSE UnavailableLine(last.calls[k].cmd), <<>>)
        /\ wsl_available = Succeeded("wsl --status")
        /\ wsl_gcc_available = Succeeded("wsl gcc --version")
        /\ wsl_valgrind_available = Succeeded("wsl valgrind --version")

\* Clear has probed, WSL answered, the WSL compiler exited with a non-zero
\* status and the WSL checker's query timed out
C4_Witness ==
    /\ last.op = "clear"
    /\ Len(last.calls) = 5
    /\ last.calls[1].o = Raises("FileNotFoundError")
    /\ last.calls[4].o = Exit(1, <<>>, <<>>)
    /\ last.calls[5].o = Raises("TimeoutExpired")
    /\ last.raise = "none"
    /\ text_area[8] = Item("[X] Valgrind not installed in WSL", <<>>)
    /\ wsl_available /\ ~wsl_valgrind_available

(***************************************************************************)
(* C5.  The probe overwrites all flags.                                    *)
(***************************************************************************)
Flags == <<wsl_available, wsl_gcc_available, wsl_valgrind_available>>

\* C5: after a probe the flags are given by that probe's answers alone (a
\* flag is true exactly when its query was made and exited with zero); the
\* entry, Compile and Analyze leave the flags alone; and a probe that gets
\* the answers of the probe before it leaves the flags as they were.
C5_ProbeOverwritesFlags ==
    /\ [](ProbeRan =>
            Flags = <<Succeeded("wsl --status"), Succeeded("wsl gcc --version"),
                      Succeeded("wsl valgrind --version")>>)
    /\ [][last'.op \in {"set", "compile", "analyze"} => Flags' = Flags]_vars
    /\ [][(ProbeRan /\ last'.op = "clear" /\ last'.calls = last.calls)
            => Flags' = Flags]_vars

\* the WSL compiler has compiled the file, and a later probe finds WSL but
\* gets no answer from the WSL compiler in time: the flag is false again
C5_Witness ==
    /\ last.op = "clear"
    /\ status_var = "Compilation successful (WSL)"
    /\ Len(last.calls) = 5
    /\ last.calls[4].o = Raises("TimeoutExpired")
    /\ wsl_available
    /\ ~wsl_gcc_available

(***************************************************************************)
(* C6.  The parser's verdict.                                              *)
(***************************************************************************)
NoLeaksVerdict == "[OK] RESULT: No memory leaks detected!"
LeaksVerdict == "[!] RESULT: Memory leaks detected!"

\* the place of an item in the presentation order: verdict, byte usage,
\* leak-summary table, full text
Section(item) ==
    CASE item.t \in {NoLeaksVerdict, LeaksVerdict} -> 1
      [] item.t = "Memory usage: " -> 2
      [] item.t \in {Dashes, "Leak Summary:"} -> 3
      [] \E n \in 1..Len(leak_patterns) : item.t = leak_patterns[n].label -> 3
      [] OTHER -> 4

\* C6: a parse emits the "no leaks" verdict when the text holds the phrase
\* and the "leaks detected" verdict when it does not; it emits one verdict,
\* first; the sections come in the order verdict, byte usage, table, full
\* text, the text itself last and whole; and a second parse of the same text
\* emits what the first did.
C6_ParserVerdict ==
    Len(ret) >= 1 =>
        LET e == ret[1] IN
        /\ e[1].t = IF NoLeaksPhrase \in Range(arg) THEN NoLeaksVerdict ELSE LeaksVerdict
        /\ Cardinality({i \in 1..Len(e) : Section(e[i]) = 1}) = 1
        /\ \A i, j \in 1..Len(e) : i < j => Section(e[i]) <= Section(e[j])
        /\ e[Len(e)] = Item("", arg)
        /\ Len(ret) = 2 => ret[2] = ret[1]

\* a text with the phrase between other lines has been parsed twice
C6_Witness ==
    /\ Len(ret) = 2
    /\ arg = <<LeakSummary, Newline, NoLeaksPhrase, Newline>>
    /\ ret[2][1].t = NoLeaksVerdict

(***************************************************************************)
(* C7.  The leak summary is gated by its header.                           *)
(***************************************************************************)
\* the fragments in which the characters " blocks" occur
HoldBlocks == {Blocks, NoLeaksPhrase}

\* the text holds a line shaped like the n-th category's: the category's
\* name and colon followed, on the same line, by the characters " blocks"
CategoryLine(text, n) ==
    \E i, j \in 1..Len(text) :
        /\ i < j
        /\ text[i] = leak_patterns[n].first
        /\ text[j] \in HoldBlocks
        /\ \A k \in i..j : text[k] # Newline

FieldEmitted(e, n) == Has(e, leak_patterns[n].label)

TableOmitted(e) ==
    /\ ~Has(e, "Leak Summary:")
    /\ ~Has(e, Dashes)
    /\ \A n \in 1..Len(leak_patterns) : ~FieldEmitted(e, n)

\* C7 as claimed: the leak-summary fields are populated if and only if the
\* text holds "LEAK SUMMARY"; without it the table is omitted entirely.
C7_FieldsIffHeader ==
    Len(ret) >= 1 =>
        /\ (\E n \in 1..Len(leak_patterns) : FieldEmitted(ret[1], n))
               <=> LeakSummary \in Range(arg)
        /\ LeakSummary \notin Range(arg) => TableOmitted(ret[1])

\* C7 as amended: the table's heading is emitted if and only if the text
\* holds "LEAK SUMMARY"; a category's field is populated if and only if the
\* text holds "LEAK SUMMARY" and a line of that category (its name and
\* colon followed on the same line by " blocks"); without "LEAK SUMMARY" the
\* table is omitted entirely, category lines or not.
C7_LeakSummaryGating ==
    Len(ret) >= 1 =>
        /\ Has(ret[1], "Leak Summary:") <=> LeakSummary \in Range(arg)
        /\ \A n \in 1..Len(leak_patterns) :
               FieldEmitted(ret[1], n)
                   <=> (LeakSummary \in Range(arg) /\ CategoryLine(arg, n))
        /\ LeakSummary \notin Range(arg) => TableOmitted(ret[1])

\* a category line without the header has been parsed: no table
C7_Witness ==
    /\ Len(ret) >= 1
    /\ arg = <<"definitely lost: ", "40 bytes in 2", Blocks>>
    /\ TableOmitted(ret[1])
    /\ ret[1][Len(ret[1])] = Item("", arg)

(***************************************************************************)
(* C8.  The path translation.                                              *)
(***************************************************************************)
DriveLetters == {"C", "d", "a"}

StartsWithDrive(p) == Len(p) >= 2 /\ p[1] \in DriveLetters /\ p[2] = ":"

\* C8: every backslash becomes a slash, and /mnt/<lowercased drive letter>
\* replaces the first two characters exactly when the path starts with a
\* drive letter and a colon.
C8_PathTranslation ==
    ret # <<>> =>
        ret[1] = IF StartsWithDrive(arg)
                 THEN Mnt \o <<Lower(arg[1])>> \o ReplaceBackslash(From(arg, 2))
                 ELSE ReplaceBackslash(arg)

(***************************************************************************)
(* C9.  The analysis cascade from the WSL checker.                         *)
(***************************************************************************)
\* the Analyze handler ran past its validation with both WSL checker flags true
AnalyzedWithWslChecker ==
    /\ last.op = "analyze"
    /\ last.calls # <<>>
    /\ wsl_available /\ wsl_valgrind_available

\* the WSL checker is invoked first; when it returns its output is parsed
\* and nothing else is invoked; when it times out that is reported and the
\* target is executed directly, the native checker not being invoked
WslCheckerReturnsOrTimesOut ==
    /\ last.calls[1].cmd = WslValgrindCmd
    /\ last.calls[1].args = <<windows_path_to_wsl(Strip(last.entry0))>>
    /\ last.calls[1].o.kind = "exit" =>
           /\ Len(last.calls) = 1
           /\ Section(Emitted[5]) = 1
           /\ Emitted[Len(Emitted)] = Item("", last.calls[1].o.stderr)
           /\ status_var = "Valgrind analysis complete (WSL)"
    /\ last.calls[1].o.kind = "TimeoutExpired" =>
           /\ Has(Emitted, "[!] Valgrind execution timed out (30 seconds)")
           /\ Commands = <<WslValgrindCmd, DirectCmd>>

WslCheckerFailedOtherwise ==
    last.calls[1].o.kind \notin {"exit", "TimeoutExpired"}

FailureReported ==
    \E i \in 1..Len(Emitted) :
        Emitted[i] = Item("[X] WSL Valgrind error: ", <<last.calls[1].o.kind>>)

\* C9 as claimed: ... and when the WSL checker fails in any other way the
\* failure is reported and the native checker is invoked next, before any
\* direct execution.
C9_OtherFailureGoesToNativeChecker ==
    AnalyzedWithWslChecker =>
        /\ WslCheckerReturnsOrTimesOut
        /\ WslCheckerFailedOtherwise =>
               /\ FailureReported
               /\ Len(last.calls) >= 2
               /\ last.calls[2].cmd = ValgrindCmd

\* C9 as amended: ... and when the WSL checker fails in any other way the
\* failure is reported and the target is executed directly, the native
\* checker not being invoked, as after a timeout.
C9_AnalyzeCascade ==
    AnalyzedWithWslChecker =>
        /\ WslCheckerReturnsOrTimesOut
        /\ WslCheckerFailedOtherwise =>
               /\ FailureReported
               /\ Commands = <<WslValgrindCmd, DirectCmd>>
               /\ last.calls[2].args = <<Strip(last.entry0)>>

\* the WSL checker could not be run (permission denied) and the target was
\* executed directly
C9_Witness ==
    /\ AnalyzedWithWslChecker
    /\ last.calls[1].o = Raises("PermissionError")
    /\ Commands = <<WslValgrindCmd, DirectCmd>>
    /\ last.calls[2].o.kind = "exit"
    /\ status_var = "Basic analysis complete (no leak detection)"

(***************************************************************************)
(* C10.  The compile falls through to the native compiler.                 *)
(***************************************************************************)
\* the Compile handler ran the WSL compiler, both flags true, and the
\* compiler exited with a non-zero status
WslCompileFailed ==
    /\ last.op = "compile"
    /\ wsl_available /\ wsl_gcc_available
    /\ last.calls # <<>>
    /\ last.calls[1].cmd = WslGccCmd
    /\ ExitedNonZero(last.calls[1].o)

\* C10: then the WSL compiler's diagnostic stream is logged and the same
\* Compile runs the native compiler on the same source path; the status and
\* the stored path at the end are those of the native attempt.
C10_CompileFallsThrough ==
    WslCompileFailed =>
        /\ \E i \in 1..Len(Emitted) :
               Emitted[i] = Item("[X] Compilation failed:", last.calls[1].o.stderr)
        /\ Len(last.calls) = 2
        /\ last.calls[2].cmd = GccCmd
        /\ last.calls[2].args[2] = Strip(last.entry0)
        /\ last.calls[1].args[2] = windows_path_to_wsl(Strip(last.entry0))
        /\ LET o == last.calls[2].o IN
           CASE ExitedZero(o) ->
                    /\ status_var = "Compilation successful"
                    /\ process_entry = last.calls[2].args[1]
             [] ExitedNonZero(o) ->
                    /\ status_var = "Compilation failed"
                    /\ process_entry = last.entry0
             [] o.kind = "FileNotFoundError" ->
                    /\ status_var = "GCC not found"
                    /\ process_entry = last.entry0
             [] OTHER ->
                    /\ status_var = "Compilation error"
                    /\ process_entry = last.entry0

\* the WSL compiler failed and the native compiler then built the program
C10_Witness ==
    /\ WslCompileFailed
    /\ Commands = <<WslGccCmd, GccCmd>>
    /\ ExitedZero(last.calls[2].o)
    /\ status_var = "Compilation successful"
    /\ process_entry = <<"C", ":", "\\", "a", ".", "e", "x", "e">>

(***************************************************************************)
(* C11.  A checker that exits with a non-zero status.                      *)
(***************************************************************************)
\* the i-th command of the last Analyze was a checker (WSL or native) and
\* it exited with a non-zero status
CheckerExitedNonZero(i) ==
    /\ last.op = "analyze"
    /\ i \in 1..Len(last.calls)
    /\ last.calls[i].cmd \in {WslValgrindCmd, ValgrindCmd}
    /\ ExitedNonZero(last.calls[i].o)

CompleteStatuses == {"Valgrind analysis complete (WSL)", "Valgrind analysis complete"}

\* C11: when a checker invocation (WSL or native) of an Analyze exits with a
\* non-zero status, the failure is reported with the captured diagnostic
\* text and the Analyze goes on to the next tier: another command follows,
\* and the action does not end with a "Valgrind analysis complete" status
\* and a leak verdict drawn from the failed run's output.
C11_CheckerFailureFallsBack ==
    \A i \in 1..Len(last.calls) :
        CheckerExitedNonZero(i) =>
            /\ \E j \in 1..Len(Emitted) : Emitted[j].a = last.calls[i].o.stderr
            /\ Len(last.calls) > i
            /\ status_var \notin CompleteStatuses
            /\ ~Has(Emitted, LeaksVerdict)
            /\ ~Has(Emitted, NoLeaksVerdict)

(***************************************************************************)
(* C12.  No compiler at all.                                               *)
(***************************************************************************)
\* the Compile handler ran on a valid source path with the WSL compiler not
\* flagged, and the native compiler is not on the search path: the compile
\* command, run with shell=True, got the shell's answer for a missing command
CompiledWithNoCompiler ==
    /\ CompiledValidSource
    /\ ~(wsl_available /\ wsl_gcc_available)
    /\ Commands = <<GccCmd>>
    /\ last.calls[1].o = Absent(TRUE, NotRecognized)

\* C12: a Compile on a valid source path with the WSL compiler flags false
\* and the native compiler absent from the search path ends in the
\* "compiler not found" error: status "GCC not found", a log line and a
\* notice naming the missing compiler, not "Compilation failed" nor
\* "Compilation error", and the stored path is unchanged.
C12_NoCompilerReportsNotFound ==
    CompiledWithNoCompiler =>
        /\ status_var = "GCC not found"
        /\ Has(Emitted, "[X] GCC compiler not found!")
        /\ Has(last.notices, "GCC compiler not found!")
        /\ status_var \notin {"Compilation failed", "Compilation error"}
        /\ process_entry = last.entry0

(***************************************************************************)
(* C13.  No status is left in progress.                                    *)
(***************************************************************************)
\* the values the status has while a handler is at work
Transient == {"Compiling...", "Analyzing memory..."}

\* the values a Compile and an Analyze end with
CompileFinal ==
    {"Compilation successful (WSL)", "Compilation successful", "Compilation failed",
     "GCC not found", "Compilation error"}
AnalyzeFinal ==
    CompleteStatuses \cup
        {"Basic analysis complete (no leak detection)", "Execution timed out",
         "Execution error", "Analysis error"}

\* the last handler went past its validation: it wrote its heading
PassedGuard == Len(text_area) > last.log0

\* C13: after any sequence of Compile, Analyze and Clear, whatever each
\* external command answered (zero exit, non-zero exit, not found, timeout,
\* another exception), the status of a handler that has returned is never
\* "Compiling..." nor "Analyzing memory...", and a Compile or an Analyze
\* that went past its validation has set one of its final statuses.
C13_NoStuckStatus ==
    /\ status_var \notin Transient
    /\ (last.op = "compile" /\ PassedGuard) => status_var \in CompileFinal
    /\ (last.op = "analyze" /\ PassedGuard) => status_var \in AnalyzeFinal

\* an Analyze whose WSL checker timed out and whose direct execution could
\* not be launched has ended with the execution-error status
C13_Witness ==
    /\ last.op = "analyze"
    /\ PassedGuard
    /\ Commands = <<WslValgrindCmd, DirectCmd>>
    /\ last.calls[1].o = Raises("TimeoutExpired")
    /\ last.calls[2].o = Raises("PermissionError")
    /\ status_var = "Execution error"

=============================================================================
